---- MODULE Spec2Model ----
(***************************************************************************)
(* Student Rep Portal (src/src/App.jsx): the storage adapter, the three    *)
(* collections of the App component, the admin gate, and export / import.  *)
(*                                                                         *)
(* JavaScript values are tagged records [t, v]; the text kept in           *)
(* localStorage is a sequence of lexical tokens, produced by JSONstringify *)
(* and read back by the recursive-descent JSONparse.                       *)
(***************************************************************************)
EXTENDS Integers, Sequences, FiniteSets, TLC

VARIABLES
    localStorage,    \* key -> [has, raw]: the browser's key-value storage
    messages,        \* App state: useState(() => loadFromStorage('sr_messages', []))
    resources,       \* App state
    infos,           \* App state
    route,           \* App state: which page is mounted
    loggedIn,        \* Admin state (FALSE while Admin is not mounted)
    sending,         \* Contact state (FALSE while Contact is not mounted)
    crashed,         \* a render threw: React has unmounted the tree
    pendingUploads,  \* Admin.handleUpload calls suspended at readFileAsBase64
    pendingSends,    \* Contact.handleSubmit calls suspended at readFileAsBase64
    last             \* the last operation, its inputs and its result

vars == <<localStorage, messages, resources, infos, route, loggedIn, sending, crashed,
          pendingUploads, pendingSends, last>>

-----------------------------------------------------------------------------
(* JavaScript values *)

JNull == [t |-> "null", v |-> "null"]
Undefined == [t |-> "undefined", v |-> "undefined"]
JBool(b) == [t |-> "bool", v |-> IF b THEN "true" ELSE "false"]
JNum(n) == [t |-> "num", v |-> n]
JStr(s) == [t |-> "str", v |-> s]
JArr(elems) == [t |-> "arr", v |-> elems]
JObj(members) == [t |-> "obj", v |-> members]

\* ToBoolean: what `x ? a : b`, `x || y` and `!x` test.
Truthy(x) ==
    CASE x.t = "null" -> FALSE
      [] x.t = "undefined" -> FALSE
      [] x.t = "bool" -> x.v = "true"
      [] x.t = "num" -> x.v # "0"
      [] x.t = "str" -> x.v # ""
      [] OTHER -> TRUE

\* x || y
OrElse(x, y) == IF Truthy(x) THEN x ELSE y

RECURSIVE FindMember(_, _, _)
FindMember(members, k, i) ==
    IF i = 0 THEN 0
    ELSE IF members[i][1] = k THEN i
    ELSE FindMember(members, k, i - 1)

\* o.k for a non-null o: a primitive or an array without that property gives undefined.
Prop(o, k) ==
    IF o.t # "obj" THEN Undefined
    ELSE LET i == FindMember(o.v, k, Len(o.v))
         IN  IF i = 0 THEN Undefined ELSE o.v[i][2]

\* o[k] = x on an object literal under construction (JSON.parse: a repeated key keeps
\* its first place and takes the last value).
SetMember(members, k, x) ==
    LET i == FindMember(members, k, Len(members))
    IN  IF i = 0 THEN Append(members, <<k, x>>)
        ELSE [members EXCEPT ![i] = <<k, x>>]

-----------------------------------------------------------------------------
(* JSON text: a sequence of tokens *)

WS == " "
Quote == "\""
NumTokens == {"0", "1"}

RECURSIVE JSONstringify(_)
RECURSIVE StringifyElems(_, _)
RECURSIVE StringifyMembers(_, _)

StringifyString(s) == IF s = "" THEN <<Quote, Quote>> ELSE <<Quote, s, Quote>>

StringifyElems(elems, i) ==
    IF i > Len(elems) THEN <<>>
    ELSE (IF i > 1 THEN <<",">> ELSE <<>>)
         \o JSONstringify(elems[i]) \o StringifyElems(elems, i + 1)

StringifyMembers(members, i) ==
    IF i > Len(members) THEN <<>>
    ELSE (IF i > 1 THEN <<",">> ELSE <<>>)
         \o StringifyString(members[i][1]) \o <<":">>
         \o JSONstringify(members[i][2]) \o StringifyMembers(members, i + 1)

\* JSON.stringify(value); setItem turns the undefined it returns for undefined into
\* the text "undefined".
JSONstringify(x) ==
    CASE x.t = "str" -> StringifyString(x.v)
      [] x.t = "arr" -> <<"[">> \o StringifyElems(x.v, 1) \o <<"]">>
      [] x.t = "obj" -> <<"{">> \o StringifyMembers(x.v, 1) \o <<"}">>
      [] OTHER -> <<x.v>>

RECURSIVE JSONstringifyPretty(_)
RECURSIVE PrettyElems(_, _)
RECURSIVE PrettyMembers(_, _)

PrettyElems(elems, i) ==
    IF i > Len(elems) THEN <<WS>>
    ELSE (IF i > 1 THEN <<",", WS>> ELSE <<WS>>)
         \o JSONstringifyPretty(elems[i]) \o PrettyElems(elems, i + 1)

PrettyMembers(members, i) ==
    IF i > Len(members) THEN <<WS>>
    ELSE (IF i > 1 THEN <<",", WS>> ELSE <<WS>>)
         \o StringifyString(members[i][1]) \o <<":", WS>>
         \o JSONstringifyPretty(members[i][2]) \o PrettyMembers(members, i + 1)

\* JSON.stringify(value, null, 2): line breaks and indentation between the tokens of a
\* non-empty array or object, a space after each colon.
JSONstringifyPretty(x) ==
    CASE x.t = "str" -> StringifyString(x.v)
      [] x.t = "arr" ->
            IF x.v = <<>> THEN <<"[", "]">>
            ELSE <<"[">> \o PrettyElems(x.v, 1) \o <<"]">>
      [] x.t = "obj" ->
            IF x.v = <<>> THEN <<"{", "}">>
            ELSE <<"{">> \o PrettyMembers(x.v, 1) \o <<"}">>
      [] OTHER -> <<x.v>>

Tok(toks, i) == IF i \in 1..Len(toks) THEN toks[i] ELSE "<eof>"

RECURSIVE SkipWs(_, _)
SkipWs(toks, i) == IF Tok(toks, i) = WS THEN SkipWs(toks, i + 1) ELSE i

ParseFail == [ok |-> FALSE, val |-> JNull, next |-> 0]
ParseOk(x, n) == [ok |-> TRUE, val |-> x, next |-> n]

\* A string literal at toks[i] = Quote.
ParseString(toks, i) ==
    IF Tok(toks, i + 1) = Quote THEN ParseOk(JStr(""), i + 2)
    ELSE IF Tok(toks, i + 1) # "<eof>" /\ Tok(toks, i + 2) = Quote
         THEN ParseOk(JStr(toks[i + 1]), i + 3)
         ELSE ParseFail

RECURSIVE ParseValue(_, _)
RECURSIVE ParseElems(_, _, _)
RECURSIVE ParseMembers(_, _, _)

ParseElems(toks, i, acc) ==
    LET r == ParseValue(toks, i)
        j == SkipWs(toks, r.next)
    IN  IF ~r.ok THEN ParseFail
        ELSE IF Tok(toks, j) = "," THEN ParseElems(toks, SkipWs(toks, j + 1), Append(acc, r.val))
        ELSE IF Tok(toks, j) = "]" THEN ParseOk(JArr(Append(acc, r.val)), j + 1)
        ELSE ParseFail

ParseMembers(toks, i, acc) ==
    IF Tok(toks, i) # Quote THEN ParseFail
    ELSE LET k == ParseString(toks, i)
             c == SkipWs(toks, k.next)
             r == ParseValue(toks, SkipWs(toks, c + 1))
             j == SkipWs(toks, r.next)
         IN  IF ~k.ok \/ Tok(toks, c) # ":" THEN ParseFail
             ELSE IF ~r.ok THEN ParseFail
             ELSE IF Tok(toks, j) = ","
                  THEN ParseMembers(toks, SkipWs(toks, j + 1), SetMember(acc, k.val.v, r.val))
             ELSE IF Tok(toks, j) = "}"
                  THEN ParseOk(JObj(SetMember(acc, k.val.v, r.val)), j + 1)
             ELSE ParseFail

ParseValue(toks, i) ==
    LET tk == Tok(toks, i)
    IN  CASE tk = "null" -> ParseOk(JNull, i + 1)
          [] tk = "true" -> ParseOk(JBool(TRUE), i + 1)
          [] tk = "false" -> ParseOk(JBool(FALSE), i + 1)
          [] tk \in NumTokens -> ParseOk(JNum(tk), i + 1)
          [] tk = Quote -> ParseString(toks, i)
          [] tk = "[" ->
                LET j == SkipWs(toks, i + 1)
                IN  IF Tok(toks, j) = "]" THEN ParseOk(JArr(<<>>), j + 1)
                    ELSE ParseElems(toks, j, <<>>)
          [] tk = "{" ->
                LET j == SkipWs(toks, i + 1)
                IN  IF Tok(toks, j) = "}" THEN ParseOk(JObj(<<>>), j + 1)
                    ELSE ParseMembers(toks, j, <<>>)
          [] OTHER -> ParseFail

\* JSON.parse(text): [ok, val]; ok = FALSE is the SyntaxError it throws.
JSONparse(text) ==
    LET r == ParseValue(text, SkipWs(text, 1))
    IN  IF r.ok /\ SkipWs(text, r.next) = Len(text) + 1
        THEN [ok |-> TRUE, val |-> r.val]
        ELSE [ok |-> FALSE, val |-> JNull]

-----------------------------------------------------------------------------
(* Storage adapter *)

Keys == {"sr_messages", "sr_resources", "sr_infos", "sr_admin_logged"}

NoItem == [has |-> FALSE, raw |-> <<>>]
Item(text) == [has |-> TRUE, raw |-> text]
EmptyStorage == [k \in Keys |-> NoItem]

\* saveToStorage(key, value): the storage after localStorage.setItem(key, JSON.stringify(value)).
saveToStorage(store, key, value) == [store EXCEPT ![key] = Item(JSONstringify(value))]

\* try { return JSON.parse(raw) } catch (e) { return fallback }, p being what the
\* parse gave.
Parsed(p, fallback) ==
    IF p.ok THEN [threw |-> FALSE, ret |-> p.val] ELSE [threw |-> FALSE, ret |-> fallback]

\* loadFromStorage written as `JSON.parse(raw) || fallback`.
loadFromStorageOrFallback(store, key, fallback) ==
    LET item == store[key]
    IN  IF ~item.has \/ item.raw = <<>> THEN [threw |-> FALSE, ret |-> fallback]
        ELSE LET p == JSONparse(item.raw)
             IN  IF p.ok THEN [threw |-> FALSE, ret |-> OrElse(p.val, fallback)]
                 ELSE [threw |-> FALSE, ret |-> fallback]

\* loadFromStorage without its try / catch.
loadFromStorageNoCatch(store, key, fallback) ==
    LET item == store[key]
    IN  IF ~item.has \/ item.raw = <<>> THEN [threw |-> FALSE, ret |-> fallback]
        ELSE LET p == JSONparse(item.raw)
             IN  IF p.ok THEN [threw |-> FALSE, ret |-> p.val]
                 ELSE [threw |-> TRUE, ret |-> Undefined]

\* loadFromStorage(key, fallback): [threw, ret]. getItem gives null for an absent key;
\* `raw ?` is false for null and for the empty text; a SyntaxError is caught.
loadFromStorage(store, key, fallback) ==
    IF ~store[key].has \/ store[key].raw = <<>> THEN [threw |-> FALSE, ret |-> fallback]
    ELSE Parsed(JSONparse(store[key].raw), fallback)

\* The value a caller of loadFromStorage receives.
LoadValue(store, key, fallback) == loadFromStorage(store, key, fallback).ret

-----------------------------------------------------------------------------
(* The storage adapter on its own: save and load over arbitrary stored text *)

TestKeys == {"sr_messages", "sr_admin_logged"}

\* JSON-serializable values, the falsy ones among them.
TestValues ==
    { JNull, JBool(FALSE), JBool(TRUE), JNum("0"), JNum("1"), JStr(""), JStr("a"),
      JArr(<<>>), JArr(<<JNum("0"), JStr(""), JArr(<<JNull>>)>>), JObj(<<>>),
      JObj(<< <<"id", JStr("msg_a")>>, <<"file", JNull>>, <<"tags", JArr(<<JBool(FALSE)>>)>> >>) }

TestFallbacks == { JBool(FALSE), JArr(<<>>), JStr("fallback") }

\* Text that is not JSON: the empty text, a bare word, an unclosed or over-closed
\* bracket, a trailing comma, a member without a value.
CorruptTexts ==
    { <<>>, <<"undefined">>, <<"[">>, <<"[", "]", "]">>, <<"[", "0", ",", "]">>,
      <<"{", Quote, "id", Quote, "}">>, <<WS>> }

StoredTexts == CorruptTexts \cup { <<"false">>, <<WS, "[", WS, "]", WS>> }

StorageInit ==
    /\ localStorage \in
         { s \in [Keys -> {NoItem} \cup { Item(x) : x \in StoredTexts }] :
             \A k \in Keys \ TestKeys : s[k] = NoItem }
    /\ messages = JArr(<<>>) /\ resources = JArr(<<>>) /\ infos = JArr(<<>>)
    /\ route = "home" /\ loggedIn = FALSE /\ sending = FALSE /\ crashed = FALSE
    /\ pendingUploads = 0 /\ pendingSends = 0
    /\ last = [op |-> "init"]

appState == <<messages, resources, infos, route, loggedIn, sending, crashed,
              pendingUploads, pendingSends>>

Save(key, value) ==
    /\ localStorage' = saveToStorage(localStorage, key, value)
    /\ last' = [op |-> "save", key |-> key, value |-> value]
    /\ UNCHANGED appState

Load(key, fallback) ==
    LET out == loadFromStorage(localStorage, key, fallback)
        afterSave == last.op = "save" /\ last.key = key
    IN  /\ last' = [op |-> "load", key |-> key, fallback |-> fallback,
                    threw |-> out.threw, ret |-> out.ret, afterSave |-> afterSave,
                    saved |-> IF afterSave THEN last.value ELSE JNull]
        /\ UNCHANGED <<localStorage, appState>>

StorageNext ==
    \/ \E k \in TestKeys, x \in TestValues : Save(k, x)
    \/ \E k \in TestKeys, f \in TestFallbacks : Load(k, f)

StorageSpec == StorageInit /\ [][StorageNext]_vars

\* C1: a load of a key right after a save of a value under that key returns that
\* value, whatever the fallback, and does not throw.
C1_RoundTrip ==
    (last.op = "load" /\ last.afterSave) => (last.ret = last.saved /\ ~last.threw)

\* A falsy value was saved, then loaded with a fallback different from it.
C1_Witness ==
    /\ last.op = "load" /\ last.afterSave
    /\ ~Truthy(last.saved) /\ last.saved # last.fallback /\ last.ret = last.saved

\* C2: a load returns exactly the fallback when the key is absent or its text does not
\* deserialize; it never throws and never changes the storage.
C2_FallbackOnMissing ==
    [][ last'.op = "load" =>
          /\ localStorage' = localStorage
          /\ ~last'.threw
          /\ ( (~localStorage[last'.key].has \/ ~JSONparse(localStorage[last'.key].raw).ok)
               => last'.ret = last'.fallback ) ]_vars

\* Text that does not deserialize was loaded, and the fallback came back.
C2_Witness ==
    /\ last.op = "load"
    /\ localStorage[last.key].has /\ localStorage[last.key].raw \in CorruptTexts \ {<<>>}
    /\ last.ret = last.fallback /\ ~last.threw

-----------------------------------------------------------------------------
(* The application: inputs *)

DEFAULT_ADMIN_PASSWORD == "Unbrella01"
Passwords == {DEFAULT_ADMIN_PASSWORD, "unbrella01", ""}

\* No append is started once the three collections and the appends in flight together
\* hold MaxLen entries.
MaxLen == 2

Routes == {"home", "contact", "files", "admin"}

\* Math.random().toString(36).slice(2, 9): two fragments, so that ids can collide.
UidFragments == {"a", "b"}
uid(prefix) == { prefix \o "_" \o s : s \in UidFragments }

\* new Date().toISOString()
Now == "2024-05-01T09:00:00.000Z"

\* The File a visitor or the admin picks in a file input.
NotesFile == [name |-> "notes.pdf", size |-> 12800, type |-> "application/pdf",
              base64 |-> "JVBERi0x"]

\* readFileAsBase64(file) when the read succeeds: FileReader.readAsDataURL's result.
readFileAsBase64(file) == "data:" \o file.type \o ";base64," \o file.base64

\* `${Math.round(file.size / 1024)} KB`
SizeLabel(file) == ToString((2 * file.size + 1024) \div 2048) \o " KB"

\* The contact form's fields at submit: `required` keeps the body non-empty.
BodyOnly == [name |-> "", email |-> "", subject |-> "", message |-> "printer broken",
             hasFile |-> FALSE]
FullForm == [name |-> "Ada", email |-> "ada@uni.edu", subject |-> "Exam room",
             message |-> "which room?", hasFile |-> TRUE]
Forms == {BodyOnly, FullForm}

\* fileData of Contact.handleSubmit
FileData(file) ==
    JObj(<< <<"name", JStr(file.name)>>, <<"size", JStr(SizeLabel(file))>>,
            <<"data", JStr(readFileAsBase64(file))>> >>)

\* msg of Contact.handleSubmit without the `|| "Anonymous"` and `|| "General"` defaults.
NewMessageAsTyped(id, form, fileData) ==
    JObj(<< <<"id", JStr(id)>>,
            <<"name", JStr(form.name)>>,
            <<"email", JStr(form.email)>>,
            <<"subject", JStr(form.subject)>>,
            <<"message", JStr(form.message)>>,
            <<"file", fileData>>,
            <<"createdAt", JStr(Now)>>,
            <<"status", JStr("unread")>> >>)

\* msg of Contact.handleSubmit
NewMessage(id, form, fileData) ==
    JObj(<< <<"id", JStr(id)>>,
            <<"name", OrElse(JStr(form.name), JStr("Anonymous"))>>,
            <<"email", JStr(form.email)>>,
            <<"subject", OrElse(JStr(form.subject), JStr("General"))>>,
            <<"message", JStr(form.message)>>,
            <<"file", fileData>>,
            <<"createdAt", JStr(Now)>>,
            <<"status", JStr("unread")>> >>)

\* res of Admin.handleUpload
NewResource(id, file) ==
    JObj(<< <<"id", JStr(id)>>, <<"name", JStr(file.name)>>,
            <<"size", JStr(SizeLabel(file))>>, <<"data", JStr(readFileAsBase64(file))>>,
            <<"createdAt", JStr(Now)>> >>)

\* info of Admin.postAnnouncement
NewInfo(id, title, body) ==
    JObj(<< <<"id", JStr(id)>>, <<"title", JStr(title)>>, <<"body", JStr(body)>>,
            <<"createdAt", JStr(Now)>> >>)

Titles == {"", "Exam dates"}
Bodies == {"", "See the board."}

\* The ids the delete handlers are called with: ids of either collection, and the
\* undefined that the Delete button of an entry without an id passes.
DeleteIds == {JStr("msg_a"), JStr("res_a"), Undefined}

\* Files offered to the import input: an export-shaped document with one key an array,
\* one not an array, one absent and one unrecognized; one with repeated ids and an
\* entry without id; one with a null entry; JSON null; text that is not JSON.
PartialDoc ==
    JSONstringifyPretty(JObj(<<
        <<"messages", JArr(<<>>)>>,
        <<"resources", JStr("none")>>,
        <<"announcements", JArr(<<NewInfo("info_a", "Exam dates", "See the board.")>>)>> >>))
RepeatedIdsDoc ==
    JSONstringify(JObj(<<
        <<"messages", JArr(<< JObj(<< <<"id", JStr("msg_a")>>, <<"message", JStr("first")>> >>),
                              JObj(<< <<"message", JStr("no id")>> >>),
                              JObj(<< <<"id", JStr("msg_a")>>, <<"message", JStr("second")>> >>) >>)>>,
        <<"resources", JArr(<< JObj(<< <<"id", JStr("res_a")>>, <<"name", JStr("a.txt")>> >>),
                               JObj(<< <<"id", JStr("res_a")>>, <<"name", JStr("b.txt")>> >>) >>)>>,
        <<"infos", JArr(<<NewInfo("info_a", "Exam dates", "See the board.")>>)>> >>))
NullEntryDoc == JSONstringify(JObj(<< <<"resources", JArr(<<JNull>>)>> >>))
ImportFiles ==
    { PartialDoc, RepeatedIdsDoc, NullEntryDoc, <<"null">>, <<"{", Quote, "messages", Quote>> }

-----------------------------------------------------------------------------
(* The application: the App component's state updates and effects *)

IsArray(x) == x.t = "arr"

\* Some entry is null: reading a property of it throws a TypeError.
AnyNull(c) == \E i \in 1..Len(c.v) : c.v[i].t = "null"

\* How many entries have m.id === id.
Matching(c, id) == Cardinality({ i \in 1..Len(c.v) : Prop(c.v[i], "id") = id })

\* The entries of seq whose id is not id, in order.
RECURSIVE WithoutId(_, _)
WithoutId(seq, id) ==
    IF seq = <<>> THEN <<>>
    ELSE IF Prop(Head(seq), "id") = id THEN WithoutId(Tail(seq), id)
    ELSE <<Head(seq)>> \o WithoutId(Tail(seq), id)

\* seq without its first entry whose id is id.
RECURSIVE WithoutFirst(_, _)
WithoutFirst(seq, id) ==
    IF seq = <<>> THEN <<>>
    ELSE IF Prop(Head(seq), "id") = id THEN Tail(seq)
    ELSE <<Head(seq)>> \o WithoutFirst(Tail(seq), id)

\* The place of the first entry whose id is id, -1 without one (findIndex).
RECURSIVE FindIndex(_, _, _)
FindIndex(seq, id, i) ==
    IF i > Len(seq) THEN -1
    ELSE IF Prop(seq[i], "id") = id THEN i - 1
    ELSE FindIndex(seq, id, i + 1)

\* handleDeleteMessage written as splice(findIndex(...), 1): an index of -1 removes the
\* last entry.
handleDeleteMessageSplice(prev, id, ok) ==
    IF ~ok \/ prev.v = <<>> THEN prev
    ELSE LET at == FindIndex(prev.v, id, 1)
             k == IF at = -1 THEN Len(prev.v) ELSE at + 1
         IN  JArr(SubSeq(prev.v, 1, k - 1) \o SubSeq(prev.v, k + 1, Len(prev.v)))

\* handleDeleteResource removing the first match only.
handleDeleteResourceFirst(prev, id, ok) ==
    IF ~ok THEN prev ELSE JArr(WithoutFirst(prev.v, id))

\* prev => [...prev, msg]
handleSendMessage(prev, msg) == JArr(Append(prev.v, msg))

\* prev => prev.filter(m => m.id !== id), after confirm() gave ok
handleDeleteMessage(prev, id, ok) ==
    IF ~ok THEN prev ELSE JArr(SelectSeq(prev.v, LAMBDA m : Prop(m, "id") # id))

handleDeleteResource(prev, id, ok) ==
    IF ~ok THEN prev ELSE JArr(SelectSeq(prev.v, LAMBDA r : Prop(r, "id") # id))

\* handlePostInfo({type, payload}): the resources and infos after it.
handlePostInfo(res, inf, type, payload) ==
    [resources |-> IF type = "resource" THEN JArr(Append(res.v, payload)) ELSE res,
     infos |-> IF type = "info" THEN JArr(Append(inf.v, payload)) ELSE inf]

\* The messages effect with an empty dependency list: nothing is saved on a change.
PersistMessagesNever(store, m) == store

\* useEffect(() => saveToStorage('sr_messages', messages), [messages]), and the two like it
PersistMessages(store, m) == saveToStorage(store, "sr_messages", m)
PersistResources(store, r) == saveToStorage(store, "sr_resources", r)
PersistInfos(store, i) == saveToStorage(store, "sr_infos", i)

\* Whether rendering the page throws: Home maps infos, FilesPage maps resources and
\* the admin panel maps messages and resources, each reading properties of every entry.
RenderThrows(rt, li, m, r, i) ==
    CASE rt = "home" -> AnyNull(i)
      [] rt = "files" -> AnyNull(r)
      [] rt = "admin" -> li /\ (AnyNull(m) \/ AnyNull(r))
      [] OTHER -> FALSE

\* The persisted session flag, as Admin's mount effect reads it.
StoredLogin(store) == Truthy(LoadValue(store, "sr_admin_logged", JBool(FALSE)))

\* App's first render and mount effects over a storage: the three collections come
\* from the storage and, unless the render throws, are saved back.
Mounted(store, m, r, i) ==
    [messages |-> m, resources |-> r, infos |-> i,
     crashed |-> RenderThrows("home", FALSE, m, r, i),
     localStorage |-> IF RenderThrows("home", FALSE, m, r, i) THEN store
                      ELSE PersistInfos(PersistResources(PersistMessages(store, m), r), i)]

Mount(store) ==
    Mounted(store, LoadValue(store, "sr_messages", JArr(<<>>)),
                   LoadValue(store, "sr_resources", JArr(<<>>)),
                   LoadValue(store, "sr_infos", JArr(<<>>)))

\* The export handler dumping the resources under both keys.
ExportDocResourcesTwice(store, m, r) ==
    JSONstringifyPretty(JObj(<< <<"messages", r>>, <<"resources", r>>,
                                <<"infos", LoadValue(store, "sr_infos", JArr(<<>>))>> >>))

\* dump of the export handler, as the text of the downloaded file.
ExportDoc(store, m, r) ==
    JSONstringifyPretty(JObj(<< <<"messages", m>>, <<"resources", r>>,
                                <<"infos", LoadValue(store, "sr_infos", JArr(<<>>))>> >>))

\* The import handler appending to what is stored instead of replacing it.
ImportMerging(store, text) ==
    LET p == JSONparse(text)
    IN  IF ~p.ok \/ p.val.t = "null" THEN [ok |-> FALSE, store |-> store]
        ELSE LET dm == Prop(p.val, "messages")
                 dr == Prop(p.val, "resources")
                 di == Prop(p.val, "infos")
                 om == LoadValue(store, "sr_messages", JArr(<<>>))
                 or == LoadValue(store, "sr_resources", JArr(<<>>))
                 oi == LoadValue(store, "sr_infos", JArr(<<>>))
                 s1 == IF IsArray(dm) THEN saveToStorage(store, "sr_messages", JArr(om.v \o dm.v))
                       ELSE store
                 s2 == IF IsArray(dr) THEN saveToStorage(s1, "sr_resources", JArr(or.v \o dr.v))
                       ELSE s1
                 s3 == IF IsArray(di) THEN saveToStorage(s2, "sr_infos", JArr(oi.v \o di.v))
                       ELSE s2
             IN  [ok |-> TRUE, store |-> s3]

\* if (Array.isArray(x)) saveToStorage(key, x)
SaveIfArray(store, key, x) == IF IsArray(x) THEN saveToStorage(store, key, x) ELSE store

\* The import handler after JSON.parse gave p: data.messages of a null data throws.
Imported(store, p) ==
    IF ~p.ok \/ p.val.t = "null" THEN [ok |-> FALSE, store |-> store]
    ELSE [ok |-> TRUE,
          store |-> SaveIfArray(
                        SaveIfArray(
                            SaveIfArray(store, "sr_messages", Prop(p.val, "messages")),
                            "sr_resources", Prop(p.val, "resources")),
                        "sr_infos", Prop(p.val, "infos"))]

\* reader.onload of the import handler over the file's text: [ok, store]. ok = FALSE is
\* the catch branch (a SyntaxError, or the TypeError of reading a property of null).
ImportInto(store, text) == Imported(store, JSONparse(text))

L(op, arg, ok) == [op |-> op, arg |-> arg, ok |-> ok]

\* "0", "1" or "2": how many entries a delete found (2 for two or more).
Found(c, id) == ToString(IF Matching(c, id) > 2 THEN 2 ELSE Matching(c, id))

-----------------------------------------------------------------------------
(* The application: state machine *)

Init ==
    \E page \in {Mount(EmptyStorage)} :
        /\ localStorage = page.localStorage
        /\ messages = page.messages
        /\ resources = page.resources
        /\ infos = page.infos
        /\ crashed = page.crashed
        /\ route = "home" /\ loggedIn = FALSE /\ sending = FALSE
        /\ pendingUploads = 0 /\ pendingSends = 0
        /\ last = L("init", "", TRUE)

\* The page loads over a storage: every component state starts over, and what was
\* in flight is gone with the old page.
PageLoad(store) ==
    \E page \in {Mount(store)} :
        /\ localStorage' = page.localStorage
        /\ messages' = page.messages
        /\ resources' = page.resources
        /\ infos' = page.infos
        /\ crashed' = page.crashed
        /\ route' = "home" /\ loggedIn' = FALSE /\ sending' = FALSE
        /\ pendingUploads' = 0 /\ pendingSends' = 0

\* Whether one more append may start.
Room ==
    Len(messages.v) + Len(resources.v) + Len(infos.v) + pendingUploads + pendingSends < MaxLen

\* The user reloads the page.
Reload ==
    /\ PageLoad(localStorage)
    /\ last' = L("reload", "", TRUE)

\* Header's onNav(k): the page of route k mounts; Admin's mount effect reads the
\* persisted flag.
Nav(k) ==
    /\ ~crashed /\ k # route
    /\ route' = k
    /\ loggedIn' = (k = "admin" /\ StoredLogin(localStorage))
    /\ sending' = FALSE
    /\ crashed' = RenderThrows(k, loggedIn', messages, resources, infos)
    /\ last' = L("nav", "", last.op = "reload")
    /\ UNCHANGED <<localStorage, messages, resources, infos,
                   pendingUploads, pendingSends>>

\* Contact.handleSubmit: without a file the message is sent at once; with a file the
\* handler suspends at the read.
ContactSubmit(form) ==
    /\ ~crashed /\ route = "contact" /\ ~sending
    /\ Room
    /\ IF form.hasFile
       THEN /\ pendingSends' = pendingSends + 1
            /\ sending' = TRUE
            /\ last' = L("contactSubmit", "reading", FALSE)
            /\ UNCHANGED <<localStorage, messages>>
       ELSE /\ \E id \in uid("msg") :
                 messages' = handleSendMessage(messages, NewMessage(id, form, JNull))
            /\ localStorage' = PersistMessages(localStorage, messages')
            /\ last' = L("contactSubmit", IF form = BodyOnly THEN "bodyOnly" ELSE "other", TRUE)
            /\ UNCHANGED <<sending, pendingSends>>
    /\ UNCHANGED <<resources, infos, route, loggedIn, crashed, pendingUploads>>

\* A suspended handleSubmit ends: `mine` says it is the mounted Contact's own.
SubmitEnds(mine) ==
    /\ pendingSends > 0
    /\ mine => sending
    /\ ~mine => pendingSends > (IF sending THEN 1 ELSE 0)
    /\ pendingSends' = pendingSends - 1
    /\ sending' = (sending /\ ~mine)

\* The read of a submitted file succeeds: handleSubmit resumes and sends the message
\* (a state update of an unmounted tree is dropped).
SendDone(mine) ==
    /\ SubmitEnds(mine)
    /\ IF crashed
       THEN UNCHANGED <<localStorage, messages>>
       ELSE /\ \E id \in uid("msg") :
                 messages' = handleSendMessage(messages,
                                 NewMessage(id, FullForm, FileData(NotesFile)))
            /\ localStorage' = PersistMessages(localStorage, messages')
    /\ last' = L("sendDone", "", ~crashed)
    /\ UNCHANGED <<resources, infos, route, loggedIn, crashed, pendingUploads>>

\* The read fails: the catch branch sets the status, no message is sent.
SendFail(mine) ==
    /\ SubmitEnds(mine)
    /\ last' = L("sendFail", "", FALSE)
    /\ UNCHANGED <<localStorage, messages, resources, infos, route, loggedIn, crashed,
                   pendingUploads>>

AdminPanel == ~crashed /\ route = "admin" /\ loggedIn

\* Admin.login without the saveToStorage("sr_admin_logged", true).
LoginNotSaved(pw) ==
    /\ ~crashed /\ route = "admin" /\ ~loggedIn
    /\ IF pw = DEFAULT_ADMIN_PASSWORD
       THEN /\ loggedIn' = TRUE
            /\ crashed' = RenderThrows(route, TRUE, messages, resources, infos)
            /\ UNCHANGED localStorage
       ELSE UNCHANGED <<loggedIn, localStorage, crashed>>
    /\ last' = [op |-> "login", arg |-> "", ok |-> pw = DEFAULT_ADMIN_PASSWORD]
    /\ UNCHANGED <<messages, resources, infos, route, sending,
                   pendingUploads, pendingSends>>

\* Admin.login
Login(pw) ==
    /\ ~crashed /\ route = "admin" /\ ~loggedIn
    /\ IF pw = DEFAULT_ADMIN_PASSWORD
       THEN /\ loggedIn' = TRUE
            /\ localStorage' = saveToStorage(localStorage, "sr_admin_logged", JBool(TRUE))
            /\ crashed' = RenderThrows(route, TRUE, messages, resources, infos)
       ELSE UNCHANGED <<loggedIn, localStorage, crashed>>
    /\ last' = L("login", "", pw = DEFAULT_ADMIN_PASSWORD)
    /\ UNCHANGED <<messages, resources, infos, route, sending,
                   pendingUploads, pendingSends>>

\* The Logout button
Logout ==
    /\ AdminPanel
    /\ loggedIn' = FALSE
    /\ localStorage' = saveToStorage(localStorage, "sr_admin_logged", JBool(FALSE))
    /\ last' = L("logout", "", TRUE)
    /\ UNCHANGED <<messages, resources, infos, route, sending, crashed,
                   pendingUploads, pendingSends>>

\* Admin.handleUpload up to its await, with a file chosen (without one it alerts and
\* returns: no step).
UploadSubmit ==
    /\ AdminPanel
    /\ Room
    /\ pendingUploads' = pendingUploads + 1
    /\ last' = L("uploadSubmit", "", TRUE)
    /\ UNCHANGED <<localStorage, messages, resources, infos, route, loggedIn, sending,
                   crashed, pendingSends>>

\* The read of the uploaded file succeeds: handleUpload resumes and posts the resource.
UploadDone ==
    /\ pendingUploads > 0
    /\ pendingUploads' = pendingUploads - 1
    /\ IF crashed
       THEN UNCHANGED <<localStorage, resources, infos>>
       ELSE /\ \E id \in uid("res") :
                 LET after == handlePostInfo(resources, infos, "resource",
                                             NewResource(id, NotesFile))
                 IN  resources' = after.resources /\ infos' = after.infos
            /\ localStorage' = PersistResources(localStorage, resources')
    /\ last' = L("uploadDone", "", ~crashed)
    /\ UNCHANGED <<messages, route, loggedIn, sending, crashed, pendingSends>>

\* The read fails: "Upload failed."
UploadFail ==
    /\ pendingUploads > 0
    /\ pendingUploads' = pendingUploads - 1
    /\ last' = L("uploadFail", "", FALSE)
    /\ UNCHANGED <<localStorage, messages, resources, infos, route, loggedIn, sending,
                   crashed, pendingSends>>

\* Admin.postAnnouncement, with a title and a body (without one of them it alerts and
\* returns: no step).
PostAnnouncement(title, body) ==
    /\ AdminPanel
    /\ title # "" /\ body # ""
    /\ Room
    /\ \E id \in uid("info") :
         LET after == handlePostInfo(resources, infos, "info", NewInfo(id, title, body))
         IN  resources' = after.resources /\ infos' = after.infos
    /\ localStorage' = PersistInfos(localStorage, infos')
    /\ last' = L("postAnnouncement", "", TRUE)
    /\ UNCHANGED <<messages, route, loggedIn, sending, crashed,
                   pendingUploads, pendingSends>>

\* The Delete button of a message: confirm() answers ok. The updater throws on a null
\* entry, which unmounts the tree.
DeleteMessage(id, ok) ==
    /\ AdminPanel
    /\ IF ok /\ AnyNull(messages)
       THEN crashed' = TRUE /\ UNCHANGED <<localStorage, messages>>
       ELSE /\ messages' = handleDeleteMessage(messages, id, ok)
            /\ localStorage' = IF ok THEN PersistMessages(localStorage, messages')
                               ELSE localStorage
            /\ UNCHANGED crashed
    /\ last' = L("deleteMessage", IF ok THEN Found(messages, id) ELSE "", ok)
    /\ UNCHANGED <<resources, infos, route, loggedIn, sending,
                   pendingUploads, pendingSends>>

\* The Delete button of a resource.
DeleteResource(id, ok) ==
    /\ AdminPanel
    /\ IF ok /\ AnyNull(resources)
       THEN crashed' = TRUE /\ UNCHANGED <<localStorage, resources>>
       ELSE /\ resources' = handleDeleteResource(resources, id, ok)
            /\ localStorage' = IF ok THEN PersistResources(localStorage, resources')
                               ELSE localStorage
            /\ UNCHANGED crashed
    /\ last' = L("deleteResource", IF ok THEN Found(resources, id) ELSE "", ok)
    /\ UNCHANGED <<messages, infos, route, loggedIn, sending,
                   pendingUploads, pendingSends>>

\* The Export JSON button: the document goes to the user's disk.
Export ==
    /\ AdminPanel
    /\ last' = L("export", "", TRUE)
    /\ UNCHANGED <<localStorage, messages, resources, infos, route, loggedIn, sending,
                   crashed, pendingUploads, pendingSends>>

\* The files the import input can be given: ImportFiles and, right after an export,
\* the document that was downloaded.
Selectable ==
    ImportFiles \cup (IF last.op = "export" THEN {ExportDoc(localStorage, messages, resources)}
                      ELSE {})

\* The import input's onChange and its reader.onload, taken as one step (nothing else
\* runs between the choice of the file and the end of its read): the arrays of the
\* document are saved and the page reloads, or 'Invalid file.' is alerted.
Import(text) ==
    /\ AdminPanel
    /\ \E got \in {ImportInto(localStorage, text)} :
           /\ IF got.ok THEN PageLoad(got.store)
              ELSE UNCHANGED <<localStorage, messages, resources, infos, route, loggedIn,
                               sending, crashed, pendingUploads, pendingSends>>
           /\ last' = L("import",
                        IF text = ExportDoc(localStorage, messages, resources)
                        THEN "exported" ELSE "file",
                        got.ok)

Next ==
    \/ Reload
    \/ \E k \in Routes : Nav(k)
    \/ \E form \in Forms : ContactSubmit(form)
    \/ \E mine \in BOOLEAN : SendDone(mine)
    \/ \E mine \in BOOLEAN : SendFail(mine)
    \/ \E pw \in Passwords : Login(pw)
    \/ Logout
    \/ UploadSubmit
    \/ UploadDone
    \/ UploadFail
    \/ \E title \in Titles, body \in Bodies : PostAnnouncement(title, body)
    \/ \E id \in DeleteIds, ok \in BOOLEAN : DeleteMessage(id, ok)
    \/ \E id \in DeleteIds, ok \in BOOLEAN : DeleteResource(id, ok)
    \/ Export
    \/ \E text \in Selectable : Import(text)

Spec == Init /\ [][Next]_vars

-----------------------------------------------------------------------------
(* Properties of the application *)

PersistedFlag(store) == LoadValue(store, "sr_admin_logged", JNull)

\* C3: a login with the fixed password, from logged-out, makes the Admin state logged-in
\* and stores sr_admin_logged = true; a reload keeps the stored flag and the Admin page
\* mounted afterwards takes its state from it; a login with any other input leaves the
\* state and the stored flag logged-out; logout makes both logged-out.
C3_AdminGate ==
    [][ /\ (last'.op = "login" /\ last'.ok)
            => (~loggedIn /\ loggedIn' /\ PersistedFlag(localStorage') = JBool(TRUE))
        /\ (last'.op = "login" /\ ~last'.ok)
            => (~loggedIn' /\ ~StoredLogin(localStorage'))
        /\ last'.op = "logout"
            => (~loggedIn' /\ PersistedFlag(localStorage') = JBool(FALSE))
        /\ last'.op = "reload"
            => localStorage'["sr_admin_logged"] = localStorage["sr_admin_logged"]
        /\ (last'.op = "nav" /\ route' = "admin")
            => loggedIn' = StoredLogin(localStorage') ]_vars

\* The page was reloaded after a login, the Admin page was opened, and it is logged-in.
C3_Witness ==
    /\ last.op = "nav" /\ last.ok
    /\ route = "admin" /\ loggedIn /\ PersistedFlag(localStorage) = JBool(TRUE)

\* C4: an import of the document an export just produced leaves messages, resources
\* and infos, after the reload, as they were before the export.
C4_ExportImport ==
    [][ (last'.op = "import" /\ last'.arg = "exported")
            => /\ last.op = "export" /\ last'.ok
               /\ messages' = messages /\ resources' = resources /\ infos' = infos ]_vars

\* An exported document was imported over three collections that differ from each other,
\* two of them non-empty.
C4_Witness ==
    /\ last.op = "import" /\ last.arg = "exported" /\ last.ok
    /\ Len(messages.v) > 0 /\ Len(infos.v) > 0
    /\ messages # resources /\ messages # infos

\* C5: a delete of a message or of a resource by an id that no entry of the collection
\* has, confirmed or cancelled, leaves that collection and the other two as they were.
C5_DeleteAbsent ==
    [][ \A id \in DeleteIds, ok \in BOOLEAN :
          /\ (DeleteMessage(id, ok) /\ Matching(messages, id) = 0)
                => (messages' = messages /\ resources' = resources /\ infos' = infos)
          /\ (DeleteResource(id, ok) /\ Matching(resources, id) = 0)
                => (messages' = messages /\ resources' = resources /\ infos' = infos) ]_vars

\* A confirmed delete found no entry of its id in a collection that has entries.
C5_Witness ==
    /\ last.op = "deleteMessage" /\ last.ok /\ last.arg = "0"
    /\ Len(messages.v) > 0

\* C6: a contact form submitted with a body only appends one message with name
\* "Anonymous", subject "General", the body, file null and status "unread", after the
\* messages that were there.
C6_BodyOnlySubmit ==
    [][ (last'.op = "contactSubmit" /\ last'.arg = "bodyOnly")
            => /\ Len(messages'.v) = Len(messages.v) + 1
               /\ SubSeq(messages'.v, 1, Len(messages.v)) = messages.v
               /\ LET msg == messages'.v[Len(messages'.v)]
                  IN  /\ Prop(msg, "name") = JStr("Anonymous")
                      /\ Prop(msg, "subject") = JStr("General")
                      /\ Prop(msg, "message") = JStr(BodyOnly.message)
                      /\ Prop(msg, "file") = JNull
                      /\ Prop(msg, "status") = JStr("unread") ]_vars

\* A body-only form was submitted when a message was already there.
C6_Witness ==
    /\ last.op = "contactSubmit" /\ last.arg = "bodyOnly"
    /\ Len(messages.v) = 2

\* The collections' keys in an import document and in the storage.
CollectionKeys ==
    { <<"messages", "sr_messages">>, <<"resources", "sr_resources">>, <<"infos", "sr_infos">> }

\* C7: an import makes each stored collection whose key holds an array in the document
\* exactly that array, leaves each stored collection whose key is absent or not an array
\* as it was, and leaves sr_admin_logged as it was.
C7_ImportOverwrites ==
    [][ last'.op = "import" =>
          \A text \in Selectable :
            Import(text) =>
              LET p == JSONparse(text)
              IN  /\ \A k \in CollectionKeys :
                       IF p.ok /\ p.val.t # "null" /\ IsArray(Prop(p.val, k[1]))
                       THEN LoadValue(localStorage', k[2], JNull) = Prop(p.val, k[1])
                       ELSE localStorage'[k[2]] = localStorage[k[2]]
                  /\ localStorage'["sr_admin_logged"] = localStorage["sr_admin_logged"] ]_vars

\* PartialDoc was imported over stored resources: messages were replaced by its empty
\* array, resources (not an array in it) and infos (absent from it) were kept.
C7_Witness ==
    /\ last.op = "import" /\ last.arg = "file" /\ last.ok
    /\ messages.v = <<>> /\ Len(resources.v) > 0
    /\ Prop(resources.v[1], "name") = JStr(NotesFile.name)
    /\ StoredLogin(localStorage)

\* C8: an entry is appended to resources, or removed from messages or resources, only
\* in a state where the admin gate (the Admin state or the stored flag) is logged-in.
C8_AdminOnly ==
    [][ ( \/ Len(resources'.v) > Len(resources.v)
          \/ Len(resources'.v) < Len(resources.v)
          \/ Len(messages'.v) < Len(messages.v) )
            => (loggedIn \/ StoredLogin(localStorage)) ]_vars

\* C9: each stored collection equals the collection in memory.
C9_Persisted ==
    /\ LoadValue(localStorage, "sr_messages", JNull) = messages
    /\ LoadValue(localStorage, "sr_resources", JNull) = resources
    /\ LoadValue(localStorage, "sr_infos", JNull) = infos

\* An upload was posted next to a message sent earlier, and both are stored.
C9_Witness ==
    /\ last.op = "uploadDone" /\ last.ok
    /\ Len(messages.v) > 0 /\ Len(resources.v) > 0
    /\ LoadValue(localStorage, "sr_resources", JNull) = resources

\* C10 as stated: a confirmed delete by an id the collection has removes a single entry
\* of that id and keeps the others in order.
C10_RemovesOne ==
    [][ \A id \in DeleteIds :
          /\ (DeleteMessage(id, TRUE) /\ ~crashed' /\ Matching(messages, id) > 0)
                => messages'.v = WithoutFirst(messages.v, id)
          /\ (DeleteResource(id, TRUE) /\ ~crashed' /\ Matching(resources, id) > 0)
                => resources'.v = WithoutFirst(resources.v, id) ]_vars

\* C10 amended: a confirmed delete removes every entry of that id (one when the ids are
\* distinct) and keeps the others in order.
C10_RemovesEvery ==
    [][ \A id \in DeleteIds :
          /\ (DeleteMessage(id, TRUE) /\ ~crashed')
                => /\ messages'.v = WithoutId(messages.v, id)
                   /\ Len(messages'.v) = Len(messages.v) - Matching(messages, id)
          /\ (DeleteResource(id, TRUE) /\ ~crashed')
                => /\ resources'.v = WithoutId(resources.v, id)
                   /\ Len(resources'.v) = Len(resources.v) - Matching(resources, id) ]_vars

\* A confirmed delete of a resource found two entries of its id and removed both.
C10_Witness ==
    /\ last.op = "deleteResource" /\ last.ok /\ last.arg = "2"
    /\ resources.v = <<>>

====
